---- MODULE Spec2Model ----
\* Token store (durin/models.py) and throttle resolver (durin/throttling.py)
\* of drf-client-token-auth, as a state machine over the database rows, the
\* calls in flight, the clock and the requests being throttled.
EXTENDS Integers, Sequences, FiniteSets, TLC

\* ---------------------------------------------------------------- bounds
MaxTime == 2          \* the clock runs 0..MaxTime
MaxTTL == 2           \* durations (token_ttl, delta_ttl) are 1..MaxTTL
MaxTokens == 2        \* AuthToken rows ever inserted (primary keys 1..MaxTokens)
MaxRenews == 2        \* renew_token calls ever started
DEFAULT_TOKEN_TTL == 1 \* durin_settings.DEFAULT_TOKEN_TTL, in clock units

Users == {"u1"}
Clients == {"c1", "c2"}
Links == {"l1", "l2"}             \* UserClient rows, one per (user, client) pair
LinkUser == [l1 |-> "u1", l2 |-> "u1"]
LinkClient == [l1 |-> "c1", l2 |-> "c2"]
TokenStrings == {"aa", "bb"}      \* values _create_token_string may return
Actors == {"view"}                \* renewed_by senders
IssueCalls == {"i1", "i2"}        \* concurrent callers of AuthToken.objects.create
RenewCalls == {"r1", "r2"}        \* concurrent callers of renew_token
Durations == 1 .. MaxTTL
NULL == -1                        \* None in integer-valued fields
NoLink == "None"                  \* userclient = None
NoString == ""                    \* None in string-valued fields

\* strings of the throttle resolver, as sequences of characters
NoneRate == [none |-> TRUE, str |-> <<>>]          \* throttle_rate = None
Str(chars) == [none |-> FALSE, str |-> chars]
RateValues == {NoneRate, Str(<<>>), Str(<<"2", "/", "s">>), Str(<<"5", "/", "m">>),
               Str(<<"a", "/", "h">>)}
DefaultRate == Str(<<"1", "0", "/", "m", "i", "n">>)  \* THROTTLE_RATES["user_per_client"]
UserPk == [u1 |-> <<"1">>, u2 |-> <<"2">>]
ClientPk == [c1 |-> <<"1">>, c2 |-> <<"2">>]
RequestUsers == {"u1", "u2"}
NetIdents == {<<"1", "0", ".", "0", ".", "0", ".", "7">>, <<"1">>,
              <<"u", "s", "e", "r", "-", "1", ".", "c", "l", "i", "e", "n", "t", "-", "1">>}
NoAuth == "None"                  \* request._auth = None
MaxRequests == 3      \* requests ever admitted by the throttle
MaxRateLen == 3       \* length of the generated rate strings
Workers == {"w1", "w2"}           \* concurrent request workers

VARIABLES
    now,          \* timezone.now()
    users,        \* rows of the AUTH_USER_MODEL table
    clients,      \* rows of Client
    token_ttl,    \* Client.token_ttl of every client
    settings,     \* rows of ClientSettings, by client
    userclients,  \* rows of UserClient
    authtokens,   \* rows of AuthToken: pk -> [token, created, expiry, userclient]
    nextTok,      \* next primary key of AuthToken
    issue,        \* calls of AuthTokenManager.create in flight, by caller
    renew,        \* calls of AuthToken.renew_token in flight, by caller
    nrenews,      \* renew_token calls started
    signals,      \* token_renewed signals sent, in order
    freed,        \* links whose AuthToken was deleted by AuthToken.delete()
    ret,          \* what the step just taken returned or raised to its caller
    throttle,     \* the UserClientRateThrottle of the request just handled, until
                  \* the settings it read change
    cache,        \* the throttle cache: cache key -> request history, newest first
    workers,      \* requests inside allow_request, by the worker that runs them
    admitted,     \* every throttle_success so far, in the order of their cache.set
    loaded,       \* by client, the throttle_rate held by the cached_property of the
                  \* Client instance the latest request against it loaded
    validation    \* the latest call of validate_client_throttle_rate and its result

\* the state of the requests being throttled
reqvars == <<cache, workers, admitted, loaded, validation>>

vars == <<now, users, clients, token_ttl, settings, userclients, authtokens,
          nextTok, issue, renew, nrenews, signals, freed, ret, throttle, reqvars>>

dbvars == <<users, clients, token_ttl, settings, userclients, authtokens, nextTok>>

\* ---------------------------------------------------------------- helpers
Restrict(f, S) == [x \in S |-> f[x]]

IdleIssue == [pc |-> "idle", userclient |-> NoLink, expiry |-> 0, dur |-> 0]

IdleRenew == [pc |-> "idle", token |-> NULL, renewed_by |-> NoString,
              new_expiry |-> 0]

NoRet == [op |-> "", outcome |-> "", call |-> NoString, token |-> NULL,
          string |-> NoString, delta_ttl |-> NULL, value |-> NULL]

NoSettings == [exists |-> FALSE, throttle_rate |-> NoneRate]

NoRequest == [is_authenticated |-> FALSE, has_auth |-> FALSE, auth |-> NoAuth,
              user |-> NoString, net |-> <<>>]

NoThrottle == [request |-> NoRequest, error |-> "", rate |-> NoneRate, key |-> <<>>]

IdleWorker == [pc |-> "idle", request |-> NoRequest, rate |-> NoneRate, key |-> <<>>,
               history |-> <<>>, at |-> 0, num_requests |-> 0, duration |-> 0]

NoLoaded == [filled |-> FALSE, value |-> NoneRate]

NoValidation == [called |-> FALSE, rate |-> NoneRate, error |-> ""]

\* AuthToken rows owned by UserClient row uc (reverse accessor "authtoken")
TokensOf(uc) == {t \in DOMAIN authtokens : authtokens[t].userclient = uc}

\* rows of UserClient that reference a user or a client
LinksOfUser(u) == {l \in userclients : LinkUser[l] = u}
LinksOfClient(c) == {l \in userclients : LinkClient[l] = c}

\* on_delete=CASCADE of AuthToken.userclient: the rows left after links ls go
CascadeTokens(ls) ==
    Restrict(authtokens, {t \in DOMAIN authtokens : authtokens[t].userclient \notin ls})

\* ---------------------------------------------------------------- pure code
\* (mutant) the override is ignored
create_ttl_ignores_override(delta_ttl, client_ttl) == client_ttl

\* AuthTokenManager.create, the duration it adds to timezone.now()
create_ttl(delta_ttl, client_ttl) ==
    IF delta_ttl # NULL THEN delta_ttl ELSE client_ttl

\* (mutant) the system-wide default instead of the client's token_ttl
renew_ttl_system_default(uc) == DEFAULT_TOKEN_TTL

\* AuthToken.renew_token, the duration it adds to timezone.now()
renew_ttl(uc) == token_ttl[LinkClient[uc]]

\* (mutant) expired already at the instant of expiry
has_expired_at_expiry(at, expiry) == at >= expiry

\* AuthToken.has_expired
has_expired(at, expiry) == at > expiry

\* (mutant) userclient a plain ForeignKey: no uniqueness per link
InsertAllowedManyPerLink(token, uc) ==
    /\ \A t \in DOMAIN authtokens : authtokens[t].token # token
    /\ uc # NoLink => uc \in userclients

\* (mutant) token without unique=True
InsertAllowedDuplicateString(token, uc) ==
    uc # NoLink => /\ uc \in userclients
                   /\ TokensOf(uc) = {}

\* the unique constraints and the foreign key the INSERT of an AuthToken meets
InsertAllowed(token, uc) ==
    /\ \A t \in DOMAIN authtokens : authtokens[t].token # token
    /\ uc # NoLink => /\ uc \in userclients
                      /\ TokensOf(uc) = {}

\* ---------------------------------------------------------------- initial state
Init ==
    /\ now = 0
    /\ users = Users
    /\ clients = Clients
    /\ token_ttl = [c \in Clients |-> DEFAULT_TOKEN_TTL]
    /\ settings = [c \in Clients |-> NoSettings]
    /\ userclients = Links
    /\ authtokens = <<>>
    /\ nextTok = 1
    /\ issue = [i \in IssueCalls |-> IdleIssue]
    /\ renew = [r \in RenewCalls |-> IdleRenew]
    /\ nrenews = 0
    /\ signals = <<>>
    /\ freed = {}
    /\ ret = NoRet
    /\ throttle = NoThrottle
    /\ cache = <<>>
    /\ workers = [w \in Workers |-> IdleWorker]
    /\ admitted = <<>>
    /\ loaded = [c \in Clients |-> NoLoaded]
    /\ validation = NoValidation

\* ---------------------------------------------------------------- environment
Tick ==
    /\ now < MaxTime
    /\ now' = now + 1
    /\ ret' = NoRet
    /\ UNCHANGED <<dbvars, issue, renew, nrenews, signals, freed, throttle, reqvars>>

DeleteLinks(ls) ==
    /\ userclients' = userclients \ ls
    /\ authtokens' = CascadeTokens(ls)

\* UserClient.delete()
DeleteUserClient(l) ==
    /\ l \in userclients
    /\ DeleteLinks({l})
    /\ ret' = NoRet
    /\ UNCHANGED <<now, users, clients, token_ttl, settings, nextTok,
                   issue, renew, nrenews, signals, freed, throttle, reqvars>>

\* User.delete(), cascading through UserClient.user
DeleteUser(u) ==
    /\ u \in users
    /\ users' = users \ {u}
    /\ DeleteLinks(LinksOfUser(u))
    /\ ret' = NoRet
    /\ UNCHANGED <<now, clients, token_ttl, settings, nextTok,
                   issue, renew, nrenews, signals, freed, throttle, reqvars>>

\* Client.delete(), cascading through UserClient.client and ClientSettings.client
DeleteClient(c) ==
    /\ c \in clients
    /\ clients' = clients \ {c}
    /\ settings' = [settings EXCEPT ![c] = NoSettings]
    /\ DeleteLinks(LinksOfClient(c))
    /\ ret' = NoRet
    /\ throttle' = NoThrottle
    /\ UNCHANGED <<now, users, token_ttl, nextTok,
                   issue, renew, nrenews, signals, freed, reqvars>>

\* a write of Client.token_ttl
SetTokenTTL(c, d) ==
    /\ c \in clients
    /\ token_ttl[c] # d
    /\ token_ttl' = [token_ttl EXCEPT ![c] = d]
    /\ ret' = NoRet
    /\ UNCHANGED <<now, users, clients, settings, userclients, authtokens, nextTok,
                   issue, renew, nrenews, signals, freed, throttle, reqvars>>

\* ---------------------------------------------------------------- issue
\* AuthTokenManager.create up to the INSERT: the expiry from the clock and the
\* duration (the token string, independent of all state, is drawn at its use)
IssueBegin(i, uc, delta_ttl) ==
    /\ issue[i].pc = "idle"
    /\ nextTok <= MaxTokens
    /\ uc \in userclients \cup {NoLink}
    /\ IF delta_ttl = NULL /\ uc = NoLink
       THEN /\ ret' = [NoRet EXCEPT !.op = "create", !.outcome = "AttributeError",
                                    !.call = i]
            /\ UNCHANGED issue
       ELSE LET d == create_ttl(delta_ttl,
                                IF uc = NoLink THEN NULL ELSE token_ttl[LinkClient[uc]])
            IN  /\ issue' = [issue EXCEPT ![i] =
                       [pc |-> "computed", userclient |-> uc,
                        expiry |-> now + d, dur |-> d]]
                /\ ret' = [NoRet EXCEPT !.op = "create", !.outcome = "computed",
                                        !.call = i, !.delta_ttl = delta_ttl]
    /\ UNCHANGED <<now, dbvars, renew, nrenews, signals, freed, throttle, reqvars>>

\* the INSERT of super().create, with created = auto_now_add
IssueInsert(i, token) ==
    /\ issue[i].pc = "computed"
    /\ nextTok <= MaxTokens
    /\ IF InsertAllowed(token, issue[i].userclient)
       THEN /\ authtokens' = authtokens @@
                 (nextTok :> [token |-> token,
                              created |-> now,
                              expiry |-> issue[i].expiry,
                              userclient |-> issue[i].userclient])
            /\ nextTok' = nextTok + 1
            /\ ret' = [NoRet EXCEPT !.op = "create", !.outcome = "created",
                                    !.call = i, !.token = nextTok, !.string = token]
       ELSE /\ ret' = [NoRet EXCEPT !.op = "create", !.outcome = "IntegrityError",
                                    !.call = i, !.string = token]
            /\ UNCHANGED <<authtokens, nextTok>>
    /\ issue' = [issue EXCEPT ![i] = IdleIssue]
    /\ UNCHANGED <<now, users, clients, token_ttl, settings, userclients,
                   renew, nrenews, signals, freed, throttle, reqvars>>

\* AuthToken.delete()
Revoke(t) ==
    /\ t \in DOMAIN authtokens
    /\ authtokens' = Restrict(authtokens, DOMAIN authtokens \ {t})
    /\ freed' = freed \cup ({authtokens[t].userclient} \ {NoLink})
    /\ ret' = [NoRet EXCEPT !.op = "delete", !.token = t]
    /\ UNCHANGED <<now, users, clients, token_ttl, settings, userclients, nextTok,
                   issue, renew, nrenews, signals, throttle, reqvars>>

\* ---------------------------------------------------------------- renew
\* (mutant) an expired token is refused
RenewBeginRefusesExpired(r, t, by) ==
    /\ renew[r].pc = "idle"
    /\ nrenews < MaxRenews
    /\ t \in DOMAIN authtokens
    /\ nrenews' = nrenews + 1
    /\ IF authtokens[t].userclient = NoLink
       THEN /\ ret' = [NoRet EXCEPT !.op = "renew_token", !.outcome = "AttributeError",
                                    !.call = r, !.token = t]
            /\ UNCHANGED renew
       ELSE IF has_expired(now, authtokens[t].expiry)
       THEN /\ ret' = [NoRet EXCEPT !.op = "renew_token", !.outcome = "Expired",
                                    !.call = r, !.token = t]
            /\ UNCHANGED renew
       ELSE /\ renew' = [renew EXCEPT ![r] =
                  [pc |-> "computed", token |-> t, renewed_by |-> by,
                   new_expiry |-> now + renew_ttl(authtokens[t].userclient)]]
            /\ ret' = [NoRet EXCEPT !.op = "renew_token", !.outcome = "computed",
                                    !.call = r, !.token = t]
    /\ UNCHANGED <<now, dbvars, issue, signals, freed, throttle, reqvars>>

\* AuthToken.renew_token up to save(): the clock, the client's token_ttl
RenewBegin(r, t, by) ==
    /\ renew[r].pc = "idle"
    /\ nrenews < MaxRenews
    /\ t \in DOMAIN authtokens
    /\ nrenews' = nrenews + 1
    /\ IF authtokens[t].userclient = NoLink
       THEN /\ ret' = [NoRet EXCEPT !.op = "renew_token", !.outcome = "AttributeError",
                                    !.call = r, !.token = t]
            /\ UNCHANGED renew
       ELSE /\ renew' = [renew EXCEPT ![r] =
                  [pc |-> "computed", token |-> t, renewed_by |-> by,
                   new_expiry |-> now + renew_ttl(authtokens[t].userclient)]]
            /\ ret' = [NoRet EXCEPT !.op = "renew_token", !.outcome = "computed",
                                    !.call = r, !.token = t]
    /\ UNCHANGED <<now, dbvars, issue, signals, freed, throttle, reqvars>>

\* (mutant) the renewal also restarts the created timestamp
RenewSaveTouchesCreated(r) ==
    /\ renew[r].pc = "computed"
    /\ IF renew[r].token \in DOMAIN authtokens
       THEN /\ authtokens' = [authtokens EXCEPT ![renew[r].token].expiry =
                                                   renew[r].new_expiry,
                                                ![renew[r].token].created = now]
            /\ renew' = [renew EXCEPT ![r].pc = "saved"]
            /\ ret' = [NoRet EXCEPT !.op = "renew_token", !.outcome = "saved",
                                    !.call = r, !.token = renew[r].token]
       ELSE /\ renew' = [renew EXCEPT ![r] = IdleRenew]
            /\ ret' = [NoRet EXCEPT !.op = "renew_token", !.outcome = "DatabaseError",
                                    !.call = r, !.token = renew[r].token]
            /\ UNCHANGED authtokens
    /\ UNCHANGED <<now, users, clients, token_ttl, settings, userclients, nextTok,
                   issue, nrenews, signals, freed, throttle, reqvars>>

\* self.save(update_fields=("expiry",)): an UPDATE of the row with that pk
RenewSave(r) ==
    /\ renew[r].pc = "computed"
    /\ IF renew[r].token \in DOMAIN authtokens
       THEN /\ authtokens' = [authtokens EXCEPT ![renew[r].token].expiry =
                                                   renew[r].new_expiry]
            /\ renew' = [renew EXCEPT ![r].pc = "saved"]
            /\ ret' = [NoRet EXCEPT !.op = "renew_token", !.outcome = "saved",
                                    !.call = r, !.token = renew[r].token]
       ELSE /\ renew' = [renew EXCEPT ![r] = IdleRenew]
            /\ ret' = [NoRet EXCEPT !.op = "renew_token", !.outcome = "DatabaseError",
                                    !.call = r, !.token = renew[r].token]
            /\ UNCHANGED authtokens
    /\ UNCHANGED <<now, users, clients, token_ttl, settings, userclients, nextTok,
                   issue, nrenews, signals, freed, throttle, reqvars>>

\* (mutant) the signal is sent twice
RenewSendTwice(r, receiver_raises) ==
    /\ renew[r].pc = "saved"
    /\ LET n == [sender |-> renew[r].renewed_by, token |-> renew[r].token,
                 new_expiry |-> renew[r].new_expiry]
       IN  signals' = Append(Append(signals, n), n)
    /\ ret' = [NoRet EXCEPT !.op = "renew_token",
                            !.outcome = IF receiver_raises THEN "ReceiverError"
                                        ELSE "returned",
                            !.call = r, !.token = renew[r].token,
                            !.value = IF receiver_raises THEN NULL
                                      ELSE renew[r].new_expiry]
    /\ renew' = [renew EXCEPT ![r] = IdleRenew]
    /\ UNCHANGED <<now, dbvars, issue, nrenews, freed, throttle, reqvars>>

\* token_renewed.send(...) and the return; a receiver that raises is re-raised
RenewSend(r, receiver_raises) ==
    /\ renew[r].pc = "saved"
    /\ signals' = Append(signals, [sender |-> renew[r].renewed_by,
                                   token |-> renew[r].token,
                                   new_expiry |-> renew[r].new_expiry])
    /\ ret' = [NoRet EXCEPT !.op = "renew_token",
                            !.outcome = IF receiver_raises THEN "ReceiverError"
                                        ELSE "returned",
                            !.call = r, !.token = renew[r].token,
                            !.value = IF receiver_raises THEN NULL
                                      ELSE renew[r].new_expiry]
    /\ renew' = [renew EXCEPT ![r] = IdleRenew]
    /\ UNCHANGED <<now, dbvars, issue, nrenews, freed, throttle, reqvars>>

\* ---------------------------------------------------------------- has_expired
HasExpired(t) ==
    /\ t \in DOMAIN authtokens
    /\ ret' = [NoRet EXCEPT !.op = "has_expired", !.token = t,
                            !.value = IF has_expired(now, authtokens[t].expiry)
                                      THEN 1 ELSE 0]
    /\ ret' # ret
    /\ UNCHANGED <<now, dbvars, issue, renew, nrenews, signals, freed, throttle, reqvars>>

\* ---------------------------------------------------------------- throttling
\* ClientSettings(client=c, throttle_rate=rate).save()
SaveSettings(c, rate) ==
    /\ c \in clients
    /\ settings[c] # [exists |-> TRUE, throttle_rate |-> rate]
    /\ settings' = [settings EXCEPT ![c] = [exists |-> TRUE, throttle_rate |-> rate]]
    /\ ret' = NoRet
    /\ throttle' = NoThrottle
    /\ UNCHANGED <<now, users, clients, token_ttl, userclients, authtokens, nextTok,
                   issue, renew, nrenews, signals, freed, reqvars>>

\* (mutant) the value is kept across requests, as on a Client instance that is
\* reused
throttle_rate_kept_across_requests(c) ==
    IF loaded[c].filled THEN loaded[c].value
    ELSE IF settings[c].exists THEN settings[c].throttle_rate ELSE NoneRate

\* Client.throttle_rate, read on the Client instance the request has loaded
throttle_rate(c) ==
    IF settings[c].exists THEN settings[c].throttle_rate ELSE NoneRate

\* truth value of a str-or-None in "rate if rate else ..."
Truthy(rate) == ~rate.none /\ Len(rate.str) > 0

\* SimpleRateThrottle.get_rate for scope "user_per_client"
get_rate == DefaultRate

\* the test both allow_request and get_cache_key make before request._auth.client
HasClientAuth(req) == req.is_authenticated /\ req.has_auth

\* UserClientRateThrottle.allow_request, up to self.rate
allow_request(req) ==
    IF HasClientAuth(req)
    THEN IF req.auth = NoAuth
         THEN [error |-> "AttributeError", rate |-> NoneRate]
         ELSE LET rate == throttle_rate(req.auth)
              IN  [error |-> "", rate |-> IF Truthy(rate) THEN rate ELSE get_rate]
    ELSE [error |-> "", rate |-> get_rate]

\* UserClientRateThrottle.get_user_client_ident
get_user_client_ident(req) ==
    <<"u", "s", "e", "r", "-">> \o UserPk[req.user]
       \o <<".", "c", "l", "i", "e", "n", "t", "-">> \o ClientPk[req.auth]

\* cache_format % {"scope": scope, "ident": ident}
CacheKey(ident) ==
    <<"t", "h", "r", "o", "t", "t", "l", "e", "_">>
       \o <<"u", "s", "e", "r", "_", "p", "e", "r", "_", "c", "l", "i", "e", "n", "t">>
       \o <<"_">> \o ident

\* UserClientRateThrottle.get_cache_key
get_cache_key(req) ==
    IF req.is_authenticated
    THEN IF req.has_auth
         THEN IF req.auth = NoAuth
              THEN [error |-> "AttributeError", key |-> <<>>]
              ELSE [error |-> "", key |-> CacheKey(get_user_client_ident(req))]
         ELSE [error |-> "", key |-> CacheKey(UserPk[req.user])]
    ELSE [error |-> "", key |-> CacheKey(req.net)]

\* the requests the authentication layer hands over: an anonymous one has no
\* user; _auth, when set, is None or the object the throttle assumes
\* (throttling.py:80), whose .client is a Client: field auth is that client
Requests ==
    {q \in [is_authenticated : BOOLEAN, has_auth : BOOLEAN,
            auth : Clients \cup {NoAuth}, user : RequestUsers \cup {NoString},
            net : NetIdents] :
        /\ q.is_authenticated <=> q.user # NoString
        /\ ~q.has_auth => q.auth = NoAuth
        /\ ~q.is_authenticated => q.auth = NoAuth}

\* ---------------------------------------------------------------- rate strings
Digits == {"0", "1", "2", "3", "4", "5", "6", "7", "8", "9"}
DigitValue == ("0" :> 0) @@ ("1" :> 1) @@ ("2" :> 2) @@ ("3" :> 3) @@ ("4" :> 4)
              @@ ("5" :> 5) @@ ("6" :> 6) @@ ("7" :> 7) @@ ("8" :> 8) @@ ("9" :> 9)

\* str.split(sep)
RECURSIVE split(_, _)
split(s, sep) ==
    IF \E i \in 1 .. Len(s) : s[i] = sep
    THEN LET i == CHOOSE k \in 1 .. Len(s) :
                     s[k] = sep /\ \A j \in 1 .. k - 1 : s[j] # sep
         IN  <<SubSeq(s, 1, i - 1)>> \o split(SubSeq(s, i + 1, Len(s)), sep)
    ELSE <<s>>

\* str.strip(), of blanks
RECURSIVE strip(_)
strip(s) ==
    IF s # <<>> /\ s[1] = " " THEN strip(Tail(s))
    ELSE IF s # <<>> /\ s[Len(s)] = " " THEN strip(SubSeq(s, 1, Len(s) - 1))
    ELSE s

\* the value of a run of digits and underscores
RECURSIVE digits_value(_)
digits_value(u) ==
    IF u = <<>> THEN 0
    ELSE LET front == SubSeq(u, 1, Len(u) - 1)
         IN  IF u[Len(u)] = "_" THEN digits_value(front)
             ELSE 10 * digits_value(front) + DigitValue[u[Len(u)]]

\* int(s) of a str: blanks around, an optional sign, digits with single
\* underscores between them; ValueError otherwise
int(s) ==
    LET t == strip(s)
        signed == t # <<>> /\ t[1] \in {"+", "-"}
        u == IF signed THEN Tail(t) ELSE t
        ok == /\ u # <<>>
              /\ \A i \in 1 .. Len(u) : u[i] \in Digits \cup {"_"}
              /\ u[1] \in Digits /\ u[Len(u)] \in Digits
              /\ \A i \in 1 .. Len(u) - 1 : ~(u[i] = "_" /\ u[i + 1] = "_")
    IN  IF ~ok THEN [error |-> "ValueError", value |-> 0]
        ELSE [error |-> "",
              value |-> IF signed /\ t[1] = "-" THEN 0 - digits_value(u)
                        ELSE digits_value(u)]

\* rates handed to the validator: None, every string of at most MaxRateLen
\* characters of RateAlphabet, and the examples of the documentation
RateAlphabet == {"1", "0", "-", "/", "s", "x"}
ValidatorInputs ==
    {NoneRate}
    \cup {Str(chars) : chars \in UNION {[1 .. n -> RateAlphabet] : n \in 0 .. MaxRateLen}}
    \cup {Str(<<"1", "0", "/", "m", "i", "n">>), Str(<<"a", "b", "c", "/", "h">>),
          Str(<<"1", "0", "0", "/", "h">>), Str(<<"2", "/", "s", "/", "s">>),
          Str(<<" ", "2", "/", "s">>), Str(<<"2", "/", " ", "s">>),
          Str(<<"1", "_", "0", "/", "m">>), Str(<<"+", "5", "/", "d">>),
          Str(<<"5", "/", "m">>), Str(<<"-", "5", "/", "m">>), Str(<<"2", "/", "S">>)}

\* TIME_PERIODS_MAP of the validator; the same table is in parse_rate
TIME_PERIODS_MAP == ("s" :> 1) @@ ("m" :> 60) @@ ("h" :> 3600) @@ ("d" :> 86400)

\* UserClientRateThrottle.validate_client_throttle_rate: "" when it returns,
\* "ValidationError" when it raises
validate_client_throttle_rate(rate) ==
    IF rate.none THEN ""
    ELSE LET parts == split(rate.str, "/")
         IN  IF Len(parts) # 2 THEN "ValidationError"
             ELSE IF int(parts[1]).error # "" THEN "ValidationError"
             ELSE IF Len(parts[2]) = 1 /\ parts[2][1] \in DOMAIN TIME_PERIODS_MAP
                  THEN ""
                  ELSE "ValidationError"

\* SimpleRateThrottle.parse_rate, which allow_request applies to self.rate: the
\* period is looked up by its first character
parse_rate(rate) ==
    IF rate.none THEN [error |-> "", num_requests |-> NULL, duration |-> NULL]
    ELSE LET parts == split(rate.str, "/")
             failed(e) == [error |-> e, num_requests |-> NULL, duration |-> NULL]
         IN  IF Len(parts) # 2 THEN failed("ValueError")
             ELSE IF int(parts[1]).error # "" THEN failed("ValueError")
             ELSE IF parts[2] = <<>> THEN failed("IndexError")
             ELSE IF parts[2][1] \notin DOMAIN TIME_PERIODS_MAP THEN failed("KeyError")
             ELSE [error |-> "", num_requests |-> int(parts[1]).value,
                   duration |-> TIME_PERIODS_MAP[parts[2][1]]]


\* a request through UserClientRateThrottle.allow_request, which calls
\* get_cache_key once the rate is set
AllowRequest(req) ==
    /\ LET a == allow_request(req)
           k == get_cache_key(req)
       IN  throttle' = [request |-> req,
                        error |-> IF a.error # "" THEN a.error ELSE k.error,
                        rate |-> a.rate,
                        key |-> IF a.error # "" THEN <<>> ELSE k.key]
    /\ throttle' # throttle
    /\ ret' = NoRet
    /\ UNCHANGED <<now, dbvars, issue, renew, nrenews, signals, freed, reqvars>>

\* ---------------------------------------------------------------- request counting
\* the while loop of SimpleRateThrottle.allow_request: entries at or before
\* limit are popped from the old end of the history
RECURSIVE drop_old(_, _)
drop_old(history, limit) ==
    IF history # <<>> /\ history[Len(history)] <= limit
    THEN drop_old(SubSeq(history, 1, Len(history) - 1), limit)
    ELSE history

\* cache.get(key, [])
cache_get(key) == IF key \in DOMAIN cache THEN cache[key] ELSE <<>>

\* requests that were let through and have not yet written the cache
Admitting == {w \in Workers : workers[w].pc = "admitting"}

\* allow_request from its first line to the decision of super().allow_request:
\* the rate, parse_rate, the cache key, cache.get, the timer, the drop of old
\* entries and the comparison with num_requests
ThrottleBegin(w, req) ==
    /\ workers[w].pc = "idle"
    /\ Len(admitted) + Cardinality(Admitting) < MaxRequests
    /\ LET a == allow_request(req)
           p == parse_rate(a.rate)
           k == get_cache_key(req)
           error == IF a.error # "" THEN a.error
                    ELSE IF p.error # "" THEN p.error ELSE k.error
           history == drop_old(cache_get(k.key), now - p.duration)
           answer(o) == [NoRet EXCEPT !.op = "allow_request", !.outcome = o, !.call = w]
       IN  /\ IF error # ""
              THEN ret' = answer(error) /\ UNCHANGED workers
              ELSE IF a.rate.none
              THEN ret' = answer("allowed") /\ UNCHANGED workers
              ELSE IF Len(history) >= p.num_requests
              THEN ret' = answer("denied") /\ UNCHANGED workers
              ELSE /\ ret' = answer("admitting")
                   /\ workers' = [workers EXCEPT ![w] =
                         [pc |-> "admitting", request |-> req, rate |-> a.rate,
                          key |-> k.key, history |-> history, at |-> now,
                          num_requests |-> p.num_requests, duration |-> p.duration]]
           /\ loaded' = IF HasClientAuth(req) /\ req.auth # NoAuth
                        THEN [loaded EXCEPT ![req.auth] =
                                 [filled |-> TRUE, value |-> throttle_rate(req.auth)]]
                        ELSE loaded
    /\ ret' # ret \/ workers' # workers \/ loaded' # loaded
    /\ UNCHANGED <<now, dbvars, issue, renew, nrenews, signals, freed, throttle,
                   cache, admitted, validation>>

\* throttle_success: history.insert(0, now); cache.set(key, history, duration)
ThrottleSet(w) ==
    /\ workers[w].pc = "admitting"
    /\ LET history == <<workers[w].at>> \o workers[w].history
       IN  cache' = [k \in DOMAIN cache \cup {workers[w].key} |->
                        IF k = workers[w].key THEN history ELSE cache[k]]
    /\ admitted' = Append(admitted, [request |-> workers[w].request,
                                     key |-> workers[w].key, at |-> workers[w].at,
                                     num_requests |-> workers[w].num_requests,
                                     duration |-> workers[w].duration])
    /\ workers' = [workers EXCEPT ![w] = IdleWorker]
    /\ ret' = [NoRet EXCEPT !.op = "allow_request", !.outcome = "allowed", !.call = w]
    /\ UNCHANGED <<now, dbvars, issue, renew, nrenews, signals, freed, throttle,
                   loaded, validation>>

\* ---------------------------------------------------------------- settings writes
\* validate_client_throttle_rate(rate), called on its own
Validate(rate) ==
    /\ validation' = [called |-> TRUE, rate |-> rate,
                      error |-> validate_client_throttle_rate(rate)]
    /\ validation' # validation
    /\ ret' = NoRet
    /\ UNCHANGED <<now, dbvars, issue, renew, nrenews, signals, freed, throttle,
                   cache, workers, admitted, loaded>>

\* ClientSettings(client=c, throttle_rate=rate): full_clean() and then save().
\* The field's validators run for a value that is not empty (blank=True,
\* null=True let None and "" through)
CleanAndSaveSettings(c, rate) ==
    /\ c \in clients
    /\ IF Truthy(rate) /\ validate_client_throttle_rate(rate) # ""
       THEN /\ ret' = [NoRet EXCEPT !.op = "full_clean", !.outcome = "ValidationError"]
            /\ ret' # ret
            /\ UNCHANGED <<settings, throttle>>
       ELSE /\ settings[c] # [exists |-> TRUE, throttle_rate |-> rate]
            /\ settings' = [settings EXCEPT ![c] =
                               [exists |-> TRUE, throttle_rate |-> rate]]
            /\ ret' = [NoRet EXCEPT !.op = "full_clean", !.outcome = "saved"]
            /\ throttle' = NoThrottle
    /\ UNCHANGED <<now, users, clients, token_ttl, userclients, authtokens, nextTok,
                   issue, renew, nrenews, signals, freed, reqvars>>

\* ---------------------------------------------------------------- specifications
\* the whole system
Next ==
    \/ Tick
    \/ \E l \in Links : DeleteUserClient(l)
    \/ \E u \in Users : DeleteUser(u)
    \/ \E c \in Clients : DeleteClient(c)
    \/ \E c \in Clients, d \in Durations : SetTokenTTL(c, d)
    \/ \E i \in IssueCalls, uc \in Links \cup {NoLink},
          d \in Durations \cup {NULL} : IssueBegin(i, uc, d)
    \/ \E i \in IssueCalls, s \in TokenStrings : IssueInsert(i, s)
    \/ \E t \in 1 .. MaxTokens : Revoke(t)
    \/ \E r \in RenewCalls, t \in 1 .. MaxTokens, a \in Actors : RenewBegin(r, t, a)
    \/ \E r \in RenewCalls : RenewSave(r)
    \/ \E r \in RenewCalls, e \in BOOLEAN : RenewSend(r, e)
    \/ \E t \in 1 .. MaxTokens : HasExpired(t)
    \/ \E c \in Clients, rate \in RateValues : SaveSettings(c, rate)
    \/ \E q \in Requests : AllowRequest(q)
    \/ \E w \in Workers, q \in Requests : ThrottleBegin(w, q)
    \/ \E w \in Workers : ThrottleSet(w)
    \/ \E rate \in ValidatorInputs : Validate(rate)
    \/ \E c \in Clients, rate \in RateValues : CleanAndSaveSettings(c, rate)

Spec == Init /\ [][Next]_vars

\* the token store with the clock stopped: concurrent issue and renew, revoke,
\* cascading deletes
StoreNext ==
    \/ \E l \in Links : DeleteUserClient(l)
    \/ \E u \in Users : DeleteUser(u)
    \/ \E c \in Clients : DeleteClient(c)
    \/ \E i \in IssueCalls, uc \in Links \cup {NoLink},
          d \in Durations \cup {NULL} : IssueBegin(i, uc, d)
    \/ \E i \in IssueCalls, s \in TokenStrings : IssueInsert(i, s)
    \/ \E t \in 1 .. MaxTokens : Revoke(t)
    \/ \E t \in 1 .. MaxTokens, a \in Actors : RenewBegin("r1", t, a)
    \/ RenewSave("r1")
    \/ \E e \in BOOLEAN : RenewSend("r1", e)

StoreSpec == Init /\ [][StoreNext]_vars

\* one issuer and the clock: issue, expiry, revoke and link deletion over time
ClockNext ==
    \/ Tick
    \/ \E l \in Links : DeleteUserClient(l)
    \/ \E c \in Clients, d \in Durations : SetTokenTTL(c, d)
    \/ \E uc \in Links \cup {NoLink}, d \in Durations \cup {NULL} :
          IssueBegin("i1", uc, d)
    \/ \E s \in TokenStrings : IssueInsert("i1", s)
    \/ \E t \in 1 .. MaxTokens : Revoke(t)
    \/ \E t \in 1 .. MaxTokens : HasExpired(t)

ClockSpec == Init /\ [][ClockNext]_vars

\* concurrent renewals over time, beside one issuer and every other operation
\* on the tokens of one link
RenewNext ==
    \/ Tick
    \/ DeleteUserClient("l1")
    \/ \E d \in Durations : SetTokenTTL("c1", d)
    \/ \E uc \in {"l1", NoLink}, d \in Durations \cup {NULL} : IssueBegin("i1", uc, d)
    \/ \E s \in TokenStrings : IssueInsert("i1", s)
    \/ \E t \in 1 .. MaxTokens : Revoke(t)
    \/ \E r \in RenewCalls, t \in 1 .. MaxTokens, a \in Actors : RenewBegin(r, t, a)
    \/ \E r \in RenewCalls : RenewSave(r)
    \/ \E r \in RenewCalls, e \in BOOLEAN : RenewSend(r, e)
    \/ \E t \in 1 .. MaxTokens : HasExpired(t)

RenewSpec == Init /\ [][RenewNext]_vars

\* the throttle resolver: settings writes, client deletion, requests
ThrottleNext ==
    \/ \E c \in Clients : DeleteClient(c)
    \/ \E c \in Clients, rate \in RateValues : SaveSettings(c, rate)
    \/ \E q \in Requests : AllowRequest(q)

ThrottleSpec == Init /\ [][ThrottleNext]_vars

\* concurrent requests against the shared throttle cache over time, for the
\* default rate and the rate "2/s" of client c1
CounterRequests ==
    {q \in Requests :
        /\ q.is_authenticated => q.has_auth /\ q.net = <<"1", "0", ".", "0", ".", "0", ".", "7">>
        /\ ~q.is_authenticated => ~q.has_auth}

CounterNext ==
    \/ Tick
    \/ SaveSettings("c1", Str(<<"2", "/", "s">>))
    \/ \E w \in Workers, q \in CounterRequests : ThrottleBegin(w, q)
    \/ \E w \in Workers : ThrottleSet(w)

CounterSpec == Init /\ [][CounterNext]_vars

\* the settings of client c1 written with and without full_clean() between
\* the requests of one worker
SettingsRequests == {q \in CounterRequests : q.is_authenticated /\ q.user = "u1"}

SettingsNext ==
    \/ \E rate \in RateValues : SaveSettings("c1", rate)
    \/ \E rate \in RateValues : CleanAndSaveSettings("c1", rate)
    \/ \E q \in SettingsRequests : ThrottleBegin("w1", q)
    \/ ThrottleSet("w1")

SettingsSpec == Init /\ [][SettingsNext]_vars

\* the validator applied to every rate of ValidatorInputs
ValidatorNext == \E rate \in ValidatorInputs : Validate(rate)

ValidatorSpec == Init /\ [][ValidatorNext]_vars

\* ---------------------------------------------------------------- claims
\* the step in which caller i's INSERT ran, and the one in which it computed
Inserted(i) == issue[i].pc = "computed" /\ issue'[i].pc = "idle"
Computed(i) == issue[i].pc = "idle" /\ issue'[i].pc = "computed"

\* the steps of caller r's renew_token: the reads, the UPDATE, the send
RenewComputed(r) == renew[r].pc = "idle" /\ renew'[r].pc = "computed"
RenewSaved(r) == renew[r].pc = "computed" /\ renew'[r].pc = "saved"
RenewFailed(r) == renew[r].pc = "computed" /\ renew'[r].pc = "idle"
RenewSent(r) == renew[r].pc = "saved" /\ renew'[r].pc = "idle"

\* C1: in every reachable state, whatever the interleaving of issue, renew,
\* revoke and cascading deletes, each UserClient link owns at most one AuthToken.
C1_OneTokenPerLink == \A l \in Links : Cardinality(TokensOf(l)) <= 1

\* two issue calls for one link were in flight together: one has just
\* inserted its token, the other has still to run its INSERT
C1_Witness ==
    \E i \in IssueCalls :
        /\ issue[i].pc = "computed"
        /\ issue[i].userclient # NoLink
        /\ ret.op = "create" /\ ret.outcome = "created" /\ ret.call # i
        /\ ret.token \in TokensOf(issue[i].userclient)

\* C2: an INSERT for a link that owns an AuthToken raises IntegrityError and
\* leaves every stored token as it was; an INSERT for an existing link that
\* owns none (as after a revoke) is not refused for the link: it stores the
\* token, beside the unchanged others, unless its token string is already
\* stored.
C2_ConflictThenReissue ==
    [][\A i \in IssueCalls :
         (Inserted(i) /\ issue[i].userclient # NoLink) =>
            LET l == issue[i].userclient
                fresh == \A t \in DOMAIN authtokens : authtokens[t].token # ret'.string
            IN  /\ TokensOf(l) # {} =>
                      /\ ret'.outcome = "IntegrityError"
                      /\ authtokens' = authtokens
                /\ (TokensOf(l) = {} /\ l \in userclients) =>
                      /\ ret'.outcome = "created" <=> fresh
                      /\ fresh =>
                            /\ authtokens'[ret'.token].userclient = l
                            /\ authtokens'[ret'.token].token = ret'.string
                            /\ \A t \in DOMAIN authtokens :
                                  authtokens'[t] = authtokens[t]
      ]_vars

\* an issue has just succeeded on a link whose earlier token was revoked
C2_Witness ==
    /\ ret.op = "create" /\ ret.outcome = "created"
    /\ authtokens[ret.token].userclient \in freed

\* C3 (as claimed): the created token has expiry - created equal to the
\* override when one is given, and to the client's default TTL otherwise.
C3_ExpiryMinusCreatedIsTTL ==
    [][\A i \in IssueCalls :
         (Inserted(i) /\ ret'.outcome = "created") =>
            authtokens'[ret'.token].expiry - authtokens'[ret'.token].created
               = issue[i].dur
      ]_vars

\* C3 (amended): create computes expiry = clock + override when an override is
\* given and clock + the client's token_ttl otherwise, at the instant it reads
\* the clock; the INSERT stores that expiry and reads the clock again for
\* created, so expiry - created is at most that duration, and equal to it
\* exactly when the clock did not advance in between.
C3_ExpiryFromClockAtCompute ==
    [][\A i \in IssueCalls :
         /\ Computed(i) =>
               LET ttl == IF ret'.delta_ttl # NULL THEN ret'.delta_ttl
                          ELSE token_ttl[LinkClient[issue'[i].userclient]]
               IN  /\ issue'[i].dur = ttl
                   /\ issue'[i].expiry = now + ttl
         /\ (Inserted(i) /\ ret'.outcome = "created") =>
               LET row == authtokens'[ret'.token]
               IN  /\ row.expiry = issue[i].expiry
                   /\ row.created = now
                   /\ row.expiry - row.created <= issue[i].dur
                   /\ (row.expiry - row.created = issue[i].dur)
                         <=> (now = issue[i].expiry - issue[i].dur)
      ]_vars

\* create has just computed an expiry from an override that differs from the
\* client's token_ttl
C3_Witness ==
    /\ ret.op = "create" /\ ret.outcome = "computed" /\ ret.delta_ttl # NULL
    /\ issue[ret.call].userclient # NoLink
    /\ ret.delta_ttl # token_ttl[LinkClient[issue[ret.call].userclient]]
    /\ issue[ret.call].expiry = now + ret.delta_ttl

\* C4: has_expired is true exactly when now > expiry (at now = expiry the token
\* is still valid); evaluating it changes nothing stored; the clock advancing
\* deletes no token: a row leaves the store only by its own delete() or with
\* its link.
C4_ExpiryIsAPredicate ==
    /\ [](ret.op = "has_expired" =>
             (ret.value = 1 <=> now > authtokens[ret.token].expiry))
    /\ [][ /\ (ret'.op = "has_expired" /\ ret' # ret) =>
                UNCHANGED <<now, dbvars, issue, renew, signals>>
           /\ now' # now => authtokens' = authtokens
           /\ \A t \in DOMAIN authtokens :
                 t \notin DOMAIN authtokens' =>
                    \/ ret'.op = "delete" /\ ret'.token = t
                    \/ authtokens[t].userclient \in userclients \ userclients'
         ]_vars

\* has_expired has just answered False at the very instant of expiry
C4_Witness ==
    /\ ret.op = "has_expired" /\ ret.value = 0
    /\ now = authtokens[ret.token].expiry

\* C5 (as claimed, in its weakest form): every successful renew strictly
\* increases token.expiry, so no renew ever stores an expiry below the one it
\* replaces, however the token was issued.
C5_RenewNeverLowersExpiry ==
    [][\A r \in RenewCalls :
         RenewSaved(r) =>
            authtokens'[renew[r].token].expiry >= authtokens[renew[r].token].expiry
      ]_vars

\* C6: a renew_token call that saved sends exactly one token_renewed signal,
\* carrying that token, the expiry the call stored and its renewed_by; a call
\* whose save fails sends none; no other step sends a signal, so signals and
\* saved calls stay equal in number under concurrent renewals.
C6_OneSignalPerSavedRenew ==
    [][ /\ \A r \in RenewCalls :
             /\ RenewSaved(r) =>
                   /\ authtokens'[renew[r].token].expiry = renew[r].new_expiry
                   /\ renew'[r] = [renew[r] EXCEPT !.pc = "saved"]
                   /\ signals' = signals
             /\ RenewSent(r) =>
                   /\ signals' = Append(signals,
                                   [sender |-> renew[r].renewed_by,
                                    token |-> renew[r].token,
                                    new_expiry |-> renew[r].new_expiry])
                   /\ ret'.outcome \in {"returned", "ReceiverError"}
             /\ RenewFailed(r) =>
                   /\ ret'.outcome = "DatabaseError"
                   /\ signals' = signals
        /\ (\A r \in RenewCalls : ~RenewSent(r)) => signals' = signals
        /\ (\A r \in RenewCalls : renew[r].pc = "saved" => renew'[r].pc # "computed")
      ]_vars

\* two concurrent renewals of one token: one has returned with its single
\* signal sent, the other has saved and has yet to send
C6_Witness ==
    \E r \in RenewCalls :
        /\ renew[r].pc = "saved"
        /\ ret.op = "renew_token" /\ ret.outcome = "returned" /\ ret.call # r
        /\ ret.token = renew[r].token
        /\ Len(signals) = 1 /\ signals[1].token = ret.token

\* C7: renew_token computes clock + the token_ttl its link's client has at
\* that instant, stores exactly that as the row's expiry, and returns it.
C7_RenewSetsNowPlusClientTTL ==
    [][\A r \in RenewCalls :
         /\ RenewComputed(r) =>
               renew'[r].new_expiry =
                  now + token_ttl[LinkClient[authtokens[renew'[r].token].userclient]]
         /\ RenewSaved(r) =>
               /\ authtokens'[renew[r].token].expiry = renew[r].new_expiry
               /\ renew'[r].new_expiry = renew[r].new_expiry
         /\ (RenewSent(r) /\ ret'.outcome = "returned") =>
               ret'.value = renew[r].new_expiry
      ]_vars

\* a renewal under a token_ttl other than the default has just returned the
\* expiry now stored
C7_Witness ==
    /\ ret.op = "renew_token" /\ ret.outcome = "returned"
    /\ ret.token \in DOMAIN authtokens
    /\ authtokens[ret.token].expiry = ret.value
    /\ authtokens[ret.token].userclient \in userclients
    /\ token_ttl[LinkClient[authtokens[ret.token].userclient]] # DEFAULT_TOKEN_TTL
    /\ ret.value = now + token_ttl[LinkClient[authtokens[ret.token].userclient]]

\* C8: a step never changes the token string, created or userclient of a
\* stored token; it changes the expiry of a stored token only if it is the
\* save of a renew_token call on that token, and then of no other token.
C8_RenewChangesOnlyExpiry ==
    [][\A t \in DOMAIN authtokens \cap DOMAIN authtokens' :
         /\ authtokens'[t].token = authtokens[t].token
         /\ authtokens'[t].created = authtokens[t].created
         /\ authtokens'[t].userclient = authtokens[t].userclient
         /\ authtokens'[t].expiry # authtokens[t].expiry =>
               /\ \E r \in RenewCalls : RenewSaved(r) /\ renew[r].token = t
               /\ \A u \in (DOMAIN authtokens \cap DOMAIN authtokens') \ {t} :
                     authtokens'[u] = authtokens[u]
      ]_vars

\* a renewal has just been saved, beside a second stored token, with an expiry
\* no issue could have given the token
C8_Witness ==
    /\ ret.op = "renew_token" /\ ret.outcome = "saved"
    /\ Cardinality(DOMAIN authtokens) = 2
    /\ authtokens[ret.token].expiry > authtokens[ret.token].created + MaxTTL

\* what resolution C9 and C10 describe for the request just handled
ViaClientToken(q) == q.is_authenticated /\ q.auth # NoAuth

\* C9 (as claimed): a request authenticated through a token of client C gets
\* C's throttle_rate when C has ClientSettings with a non-null throttle_rate,
\* and the default rate of "user_per_client" otherwise; every other request
\* gets the default rate.
C9_EffectiveRate ==
    throttle.request # NoRequest =>
       LET q == throttle.request
       IN  /\ throttle.error = ""
           /\ throttle.rate =
                 IF /\ ViaClientToken(q)
                    /\ settings[q.auth].exists
                    /\ ~settings[q.auth].throttle_rate.none
                 THEN settings[q.auth].throttle_rate
                 ELSE DefaultRate

\* C10 (as claimed): the ident is "user-<pk>.client-<pk>" for a request
\* authenticated with a client token, the user's pk for a user authenticated
\* otherwise, the network identity for an anonymous request.
C10_IdentPriority ==
    throttle.request # NoRequest =>
       LET q == throttle.request
       IN  /\ throttle.error = ""
           /\ throttle.key = CacheKey(
                 IF ViaClientToken(q)
                 THEN <<"u", "s", "e", "r", "-">> \o UserPk[q.user]
                         \o <<".", "c", "l", "i", "e", "n", "t", "-">>
                         \o ClientPk[q.auth]
                 ELSE IF q.is_authenticated THEN UserPk[q.user] ELSE q.net)

\* the identity a request is counted under: the (user, client) pair of a client
\* token, the user authenticated otherwise, the network identity when anonymous
Identity(q) ==
    IF ViaClientToken(q)
    THEN [kind |-> "pair", user |-> q.user, client |-> q.auth, net |-> <<>>]
    ELSE IF q.is_authenticated
    THEN [kind |-> "user", user |-> q.user, client |-> NoAuth, net |-> <<>>]
    ELSE [kind |-> "anonymous", user |-> NoString, client |-> NoAuth, net |-> q.net]

\* admissions of cache key k whose time lies in the window of duration d that
\* ends at time t
AdmittedIn(k, t, d) ==
    {j \in 1 .. Len(admitted) :
        /\ admitted[j].key = k
        /\ admitted[j].at > t - d /\ admitted[j].at <= t}

\* C11 (as claimed): for a cache key whose requests were all counted at one
\* rate of N requests per W seconds, no window of W seconds holds more than N
\* admitted requests, whatever the interleaving of the concurrent requests.
C11_AtMostNPerWindow ==
    \A i \in 1 .. Len(admitted) :
       (\A j \in 1 .. Len(admitted) :
           admitted[j].key = admitted[i].key =>
              /\ admitted[j].num_requests = admitted[i].num_requests
              /\ admitted[j].duration = admitted[i].duration)
       => Cardinality(AdmittedIn(admitted[i].key, admitted[i].at, admitted[i].duration))
             <= admitted[i].num_requests

\* C12 (as claimed): requests of different identities (distinct (user, client)
\* pairs, users authenticated otherwise, anonymous callers) are never counted
\* under the same cache key.
C12_IndependentCounters ==
    \A i, j \in 1 .. Len(admitted) :
       admitted[i].key = admitted[j].key =>
          Identity(admitted[i].request) = Identity(admitted[j].request)

\* "<positiveInteger>/<periodChar>": digits of a positive value, one "/", one
\* of the characters s, m, h, d
ClaimedRateForm(chars) ==
    \E i \in 2 .. Len(chars) - 1 :
       /\ chars[i] = "/"
       /\ \A j \in 1 .. i - 1 : chars[j] \in Digits
       /\ \E j \in 1 .. i - 1 : chars[j] # "0"
       /\ Len(chars) = i + 1
       /\ chars[i + 1] \in {"s", "m", "h", "d"}

\* C13 (as claimed): the validator accepts None, accepts a string only if it
\* has the form "<positiveInteger>/<periodChar>", and raises a validation error
\* for every other string.
C13_ValidatorAcceptsExactlyRates ==
    validation.called =>
       (validation.error = ""
           <=> (validation.rate.none \/ ClaimedRateForm(validation.rate.str)))

\* C14 (as claimed, in its weakest form): no malformed throttle_rate is ever
\* stored, so no request fails in parse_rate.
C14_ParseNeverFailsAtRequestTime ==
    ret.op = "allow_request" =>
       ret.outcome \notin {"ValueError", "IndexError", "KeyError"}

\* C15 (as claimed): when the token string drawn by create is already stored,
\* create draws another and retries: while the link can take a token and an
\* unused string exists, the first collision is not what the caller gets.
C15_CollisionIsRetried ==
    [][\A i \in IssueCalls :
         (/\ Inserted(i)
          /\ \E t \in DOMAIN authtokens : authtokens[t].token = ret'.string
          /\ \E s \in TokenStrings :
                \A t \in DOMAIN authtokens : authtokens[t].token # s
          /\ issue[i].userclient # NoLink
          /\ issue[i].userclient \in userclients
          /\ TokensOf(issue[i].userclient) = {})
         => ret'.outcome # "IntegrityError"
      ]_vars

\* C16: no two stored AuthTokens have the same token string; of two create
\* calls that drew the same string at most one stored a row.
C16_TokenStringsUnique ==
    \A t1, t2 \in DOMAIN authtokens :
       authtokens[t1].token = authtokens[t2].token => t1 = t2

\* an INSERT has just been refused for its token string alone: every link
\* exists and the only stored token, which has that string, belongs to no link
C16_Witness ==
    /\ ret.op = "create" /\ ret.outcome = "IntegrityError"
    /\ userclients = Links
    /\ DOMAIN authtokens # {}
    /\ \A t \in DOMAIN authtokens :
          authtokens[t].token = ret.string /\ authtokens[t].userclient = NoLink

\* C17 (as claimed): a receiver of token_renewed that fails does not fail
\* renew_token: every call that sent the signal returns the expiry it stored.
C17_ReceiverFailureNotPropagated ==
    [][\A r \in RenewCalls :
         RenewSent(r) =>
            /\ ret'.outcome = "returned"
            /\ ret'.value = renew[r].new_expiry
      ]_vars

\* C18 (as claimed): every stored AuthToken has an owning UserClient row that
\* exists.
C18_EveryTokenHasItsLink ==
    \A t \in DOMAIN authtokens : authtokens[t].userclient \in userclients

\* the step in which worker w's request was let through to the cache write
LetThrough(w) == workers[w].pc = "idle" /\ workers'[w].pc = "admitting"

C20_ExpiredTokenRenews ==
    [][\A r \in RenewCalls :
         /\ (/\ renew[r].pc = "idle"
             /\ ret'.op = "renew_token" /\ ret'.call = r
             /\ ret'.token \in DOMAIN authtokens
             /\ authtokens[ret'.token].userclient # NoLink
             /\ has_expired(now, authtokens[ret'.token].expiry))
            => /\ renew'[r].pc = "computed"
               /\ renew'[r].token = ret'.token
               /\ ~has_expired(now, renew'[r].new_expiry)
         /\ RenewSaved(r) =>
               authtokens'[renew[r].token].expiry = renew[r].new_expiry
      ]_vars

\* a renew_token call on a token that has expired is on its way to save()
\* with an expiry that has not
C20_Witness ==
    \E r \in RenewCalls :
       /\ renew[r].pc = "computed"
       /\ renew[r].token \in DOMAIN authtokens
       /\ has_expired(now, authtokens[renew[r].token].expiry)
       /\ ~has_expired(now, renew[r].new_expiry)

====
